---- MODULE Spec2Model ----
(***************************************************************************)
(* Control logic of gpt_2_length_patch71.py: the sampling loop of          *)
(* generate() and the training loop of finetune().  The transformer, the   *)
(* BPE encoder, the optimizer and the checkpoint saver are services the    *)
(* code calls; they are modelled by what the calls in this file rely on.   *)
(***************************************************************************)
EXTENDS Integers, Sequences, FiniteSets, TLC

(* ---------------------------------------------------------------------- *)
(* Bounds of the model                                                     *)
(* ---------------------------------------------------------------------- *)
\* the literal 1023 of generate (lines 494, 497), scaled down
Window == 3
\* model calls allowed in one batch (the loop of line 493 has no cap)
MaxCalls == 2

\* Python's None for a string argument, and for length
None == <<"None">>
LenNone == -1

Min(a, b) == IF a < b THEN a ELSE b

(* ---------------------------------------------------------------------- *)
(* The tokenizer: a byte-pair vocabulary with one merge                    *)
(* ---------------------------------------------------------------------- *)
PadToken == 0
TokA == 1
TokB == 2
TokAB == 3
TokNL == 4
EndOfText == 5

\* tokens the sampler can return
SampleTokens == {TokA, TokB}

\* the text of one token, as a sequence of characters
Piece(t) ==
    CASE t = PadToken  -> <<"!">>
      [] t = TokA      -> <<"a">>
      [] t = TokB      -> <<"b">>
      [] t = TokAB     -> <<"a", "b">>
      [] t = TokNL     -> <<"nl">>
      [] OTHER         -> <<"eot">>

RECURSIVE Decode(_)
Decode(toks) ==
    IF toks = <<>> THEN <<>> ELSE Piece(Head(toks)) \o Decode(Tail(toks))

CharToken(c) ==
    CASE c = "!"  -> PadToken
      [] c = "a"  -> TokA
      [] c = "b"  -> TokB
      [] c = "nl" -> TokNL
      [] OTHER    -> EndOfText

RECURSIVE Encode(_)
Encode(text) ==
    IF text = <<>> THEN <<>>
    ELSE IF Len(text) >= 2 /\ text[1] = "a" /\ text[2] = "b"
         THEN <<TokAB>> \o Encode(SubSeq(text, 3, Len(text)))
         ELSE <<CharToken(text[1])>> \o Encode(Tail(text))

\* str.lstrip('\n')
RECURSIVE LStripNL(_)
LStripNL(text) ==
    IF text # <<>> /\ Head(text) = "nl" THEN LStripNL(Tail(text)) ELSE text

\* ''.join(list)
RECURSIVE Join(_)
Join(parts) ==
    IF parts = <<>> THEN <<>> ELSE Head(parts) \o Join(Tail(parts))

\* a[k:] of Python, k counted from 0
SliceFrom(a, k) == SubSeq(a, k + 1, Len(a))

OccursAt(text, pat, k) ==
    /\ k >= 1
    /\ k + Len(pat) - 1 <= Len(text)
    /\ SubSeq(text, k, k + Len(pat) - 1) = pat

\* first position >= from where pat occurs in text, 0 when there is none
FindFrom(text, pat, from) ==
    LET hits == {k \in from..(Len(text) + 1) : OccursAt(text, pat, k)}
    IN  IF hits = {} THEN 0 ELSE CHOOSE k \in hits : \A j \in hits : k <= j

Contains(text, pat) == FindFrom(text, pat, 1) # 0

\* truthiness of a Python string argument
Truthy(s) == s # None /\ s # <<>>

(* ---------------------------------------------------------------------- *)
(* State                                                                   *)
(* ---------------------------------------------------------------------- *)
VARIABLES
    \* generate(): arguments
    nsamples, batch_size, length, truncate, prefix, batch_prefix,
    include_prefix, split_context, destination_path, return_as_list,
    sample_delim,
    \* generate(): locals
    g_pc, context_tokens, generated, gen_texts, gen_text, truncated,
    total_tokens,
    \* generate(): the destination file (open or not, what was written),
    \* standard output, the value handed back
    f_open, f_writes, printed, returned,
    \* generate(): what was observed (not read by the code)
    calls, stream, gen_toks, gen_streams, matched, own_text

gen_vars == <<nsamples, batch_size, length, truncate, prefix, batch_prefix,
              include_prefix, split_context, destination_path, return_as_list,
              sample_delim,
              g_pc, context_tokens, generated, gen_texts, gen_text, truncated,
              total_tokens, f_open, f_writes, printed, returned, calls,
              stream, gen_toks, gen_streams, matched, own_text>>

VARIABLES
    \* finetune(): arguments
    steps, save_every, sample_every, accumulate_gradients, model_name,
    restore_from, overwrite, use_memory_saving_gradients,
    \* finetune(): locals
    t_pc, counter, counter_base, ckpt,
    \* the run's checkpoint directory: text of the counter file, step of
    \* the checkpoint tf.train.latest_checkpoint finds there
    counter_file, run_latest,
    \* finetune(): what was observed (not read by the code)
    arg_accumulate, arg_memory_saving, path_latest, save_tick,
    last_save_counter, call_saves,
    applies, sample_runs, it_resets, it_computes, it_batches, it_applies,
    \* finetune(): more arguments (batch_size is train_batch_size here)
    sample_num, train_batch_size, print_every, dataset,
    \* finetune(): the running average pair, in hundredths
    avg_loss,
    \* the samples file last written by the call; whether the run's
    \* directory holds model or event files, and whether those listed at
    \* line 166 are still there
    sample_file, dir_has_files, old_files

train_vars == <<steps, save_every, sample_every, accumulate_gradients,
                model_name, restore_from, overwrite,
                use_memory_saving_gradients, t_pc, counter, counter_base,
                ckpt, counter_file, run_latest, arg_accumulate,
                arg_memory_saving, path_latest, save_tick, last_save_counter, call_saves, applies,
                sample_runs, it_resets, it_computes, it_batches, it_applies,
                sample_num, train_batch_size, print_every, dataset, avg_loss,
                sample_file, dir_has_files, old_files>>

vars == <<gen_vars, train_vars>>

Slots == 1..batch_size

(* ---------------------------------------------------------------------- *)
(* generate(): helpers                                                     *)
(* ---------------------------------------------------------------------- *)
\* int(n * f) for the fraction f = <<numerator, denominator>>
IntTimes(n, f) == (n * f[1]) \div f[2]
OneMinus(f) == <<f[2] - f[1], f[2]>>

\* re.search(pattern, to_trunc, re.S) with the pattern of lines 533-538:
\* found, and group(1)
TruncSearch(to_trunc, pfx, incl, trunc) ==
    IF Truthy(pfx) /\ ~incl
    THEN LET starts == {p \in 1..Len(to_trunc) :
                          /\ OccursAt(to_trunc, pfx, p)
                          /\ FindFrom(to_trunc, trunc, p + Len(pfx)) # 0}
         IN  IF starts = {} THEN [found |-> FALSE, group |-> <<>>]
             ELSE LET p == CHOOSE q \in starts : \A r \in starts : q <= r
                      k == FindFrom(to_trunc, trunc, p + Len(pfx))
                  IN  [found |-> TRUE,
                       group |-> SubSeq(to_trunc, p + Len(pfx), k - 1)]
    ELSE LET k == FindFrom(to_trunc, trunc, 1)
         IN  IF k = 0 THEN [found |-> FALSE, group |-> <<>>]
             ELSE [found |-> TRUE, group |-> SubSeq(to_trunc, 1, k - 1)]

\* gen_text = [[]] * batch_size: every slot holds the same list object, so
\* gen_text[i] += [text] is seen through every slot
GenTextAppend(gt, i, text) == [j \in DOMAIN gt |-> Append(gt[j], text)]

\* all(gen_text)
AllGenText(gt) == \A j \in DOMAIN gt : gt[j] # <<>>

\* left padding of batch_prefix entries with token 0 up to length ml
RECURSIVE PadFront(_, _)
PadFront(p, ml) == IF Len(p) < ml THEN PadFront(<<PadToken>> \o p, ml) ELSE p

MaxLen(seqs) ==
    CHOOSE m \in {Len(seqs[j]) : j \in DOMAIN seqs} :
        \A j \in DOMAIN seqs : Len(seqs[j]) <= m

InitialContext(pfx, bpfx, bs) ==
    IF Truthy(pfx) THEN [j \in 1..bs |-> Encode(pfx)]
    ELSE IF bpfx # <<>>
         THEN LET enc == [j \in 1..Len(bpfx) |-> Encode(bpfx[j])]
              IN  [j \in 1..Len(bpfx) |-> PadFront(enc[j], MaxLen(enc))]
         ELSE [j \in 1..bs |-> <<EndOfText>>]

\* the assertions of lines 438-451
ArgumentsAccepted(ns, bs, pfx, bpfx, len, trunc) ==
    /\ ns % bs = 0
    /\ ~(Truthy(pfx) /\ bpfx # <<>>)
    /\ (bpfx = <<>> \/ Len(bpfx) = bs)
    /\ ((len = LenNone \/ len = 0) => trunc # None)

\* length argument of sample_sequence
SampleLength(len, num_tokens) ==
    Min(IF len = LenNone \/ len = 0 THEN Window ELSE len, num_tokens)

\* sample.sample_sequence(...)[:, 1:] run on the context: the context
\* followed by the newly sampled tokens, first column dropped
ModelOutput(ctx, new) == [j \in DOMAIN ctx |-> Tail(ctx[j] \o new[j])]

\* the feed of line 503 needs one context length for all slots
Rectangular(ctx) == \A j, k \in DOMAIN ctx : Len(ctx[j]) = Len(ctx[k])

\* variant: the length test without the test for None
LengthReachedIgnoringNone(len, total) == total >= len - 1

\* line 546: the length test that marks a slot truncated
LengthReached(len, total) == len # LenNone /\ total >= len - 1

\* body of the loop of line 509 for slot i; st = [ctx, gt, tr, mt, own]:
\* contexts, gen_text, truncated, and per slot whether trunc_text was a
\* match and the texts the slot itself appended at line 545
SlotStep(st, i, out, total) ==
    IF st.tr[i] THEN st
    ELSE
    LET text1 == IF Truthy(prefix) \/ batch_prefix # <<>>
                 THEN SubSeq(st.ctx[i], 1, 1) \o out[i]
                 ELSE out[i]
        slide == Truthy(truncate) \/ AllGenText(st.gt)
        n     == Len(out[i])
        ctx2  == IF slide
                 THEN [st.ctx EXCEPT
                         ![i] = SliceFrom(out[i],
                                          IntTimes(n, OneMinus(split_context)))]
                 ELSE st.ctx
        text2 == IF slide /\ st.gt[i] # <<>>
                 THEN SliceFrom(out[i], IntTimes(n, split_context))
                 ELSE text1
        m     == IF slide /\ Truthy(truncate)
                 THEN TruncSearch(Decode(text2), prefix, include_prefix,
                                  truncate)
                 ELSE [found |-> FALSE, group |-> <<>>]
        text3 == IF m.found THEN Encode(m.group) ELSE text2
    IN  [ctx |-> ctx2,
         gt  |-> GenTextAppend(st.gt, i, text3),
         tr  |-> [st.tr EXCEPT
                    ![i] = m.found \/ LengthReached(length, total)],
         mt  |-> [st.mt EXCEPT ![i] = @ \/ m.found],
         own |-> [st.own EXCEPT ![i] = Append(@, text3)]]

RECURSIVE ForSlots(_, _, _, _)
ForSlots(i, st, out, total) ==
    IF i > batch_size THEN st
    ELSE ForSlots(i + 1, SlotStep(st, i, out, total), out, total)

\* lines 549-551: the text of one slot
SlotText(chunks) ==
    Join([k \in 1..Len(chunks) |-> LStripNL(Decode(chunks[k]))])

\* lines 440-441: sample_delim ('=' * 20 + '\n' by default)
DefaultDelim == <<"=", "nl">>

\* variant: the delimiter is kept for a single sample
SampleDelimKept(ns, delim) == delim

\* lines 440-441: the delimiter generate goes on with
SampleDelim(ns, delim) == IF ns = 1 THEN <<>> ELSE delim

\* "{}\n{}".format(gen, sample_delim), lines 553 and 555
Formatted(gen, ns, delim) == gen \o <<"nl">> \o SampleDelim(ns, delim)

\* line 552
WritesFile(dest) == Truthy(dest)

\* variant: printed whenever no list is handed back
PrintsUnlessReturned(dest, ral) == ~ral

\* line 554
Prints(dest, ral) == ~ral /\ ~Truthy(dest)

\* variant: one string per batch instead of one per slot
BatchTextsFirstSlot(gt) == <<SlotText(gt[1])>>

\* the strings appended to gen_texts for one batch (lines 549-556)
BatchTexts(gt) == [j \in DOMAIN gt |-> SlotText(gt[j])]

(* ---------------------------------------------------------------------- *)
(* generate(): inputs                                                      *)
(* ---------------------------------------------------------------------- *)
NsamplesOptions == {1, 2}
BatchSizeOptions == {1, 2}
LongLength == Window + 2
LengthOptions == {LenNone, 2, Window, LongLength}
Delimiter == <<"b", "b">>
TruncateOptions == {None, <<>>, Delimiter}
PrefixOptions == {None, <<"a">>}
BatchPrefixFor(bs) == [j \in 1..bs |-> IF j = 1 THEN <<"b">> ELSE <<"b", "a">>]
SplitOptions == {<<1, 2>>}
DestinationOptions == {None, <<"o">>}
DelimOptions == {DefaultDelim, <<"!">>}

\* the sampling arguments with which every output mode is tried
PlainSampling(len, trunc, pfx, bpfx) ==
    len = 2 /\ trunc = None /\ pfx = None /\ bpfx = <<>>

SeqsOfLen(S, n) == [1..n -> S]

\* finetune() is not running
TrainIdle ==
    /\ steps = -1
    /\ save_every = 1
    /\ sample_every = 1
    /\ accumulate_gradients = 1
    /\ model_name = "124M"
    /\ restore_from = "latest"
    /\ overwrite = FALSE
    /\ use_memory_saving_gradients = FALSE
    /\ t_pc = "idle"
    /\ counter = 1
    /\ counter_base = 1
    /\ ckpt = [dir |-> "none", step |-> 0]
    /\ counter_file = None
    /\ run_latest = -1
    /\ arg_accumulate = 1
    /\ arg_memory_saving = FALSE
    /\ path_latest = -1
    /\ save_tick = 0
    /\ last_save_counter = 0
    /\ call_saves = 0
    /\ applies = 0
    /\ sample_runs = 0
    /\ it_resets = 0
    /\ it_computes = 0
    /\ it_batches = 0
    /\ it_applies = 0
    /\ sample_num = 1
    /\ train_batch_size = 1
    /\ print_every = 1
    /\ dataset = [list |-> FALSE, paths |-> <<"p">>]
    /\ avg_loss = <<0, 0>>
    /\ sample_file = [counter |-> 0, texts |-> <<>>]
    /\ dir_has_files = FALSE
    /\ old_files = FALSE

InitGen ==
    /\ nsamples \in NsamplesOptions
    /\ batch_size \in BatchSizeOptions
    /\ length \in LengthOptions
    /\ truncate \in TruncateOptions
    /\ prefix \in PrefixOptions
    /\ batch_prefix \in {<<>>, BatchPrefixFor(batch_size)}
    /\ include_prefix \in
         IF Truthy(prefix) /\ Truthy(truncate) THEN BOOLEAN ELSE {TRUE}
    /\ split_context \in SplitOptions
    /\ destination_path \in
         IF PlainSampling(length, truncate, prefix, batch_prefix)
         THEN DestinationOptions ELSE {None}
    /\ return_as_list \in
         IF PlainSampling(length, truncate, prefix, batch_prefix)
         THEN BOOLEAN ELSE {TRUE}
    /\ sample_delim \in
         IF PlainSampling(length, truncate, prefix, batch_prefix)
         THEN DelimOptions ELSE {DefaultDelim}
    /\ f_open = FALSE
    /\ f_writes = <<>>
    /\ printed = <<>>
    /\ returned = None
    /\ matched = <<>>
    /\ own_text = <<>>
    /\ g_pc = "call"
    /\ context_tokens = <<>>
    /\ generated = 0
    /\ gen_texts = <<>>
    /\ gen_text = <<>>
    /\ truncated = <<>>
    /\ total_tokens = 0
    /\ calls = 0
    /\ stream = <<>>
    /\ gen_toks = <<>>
    /\ gen_streams = <<>>
    /\ TrainIdle

(* ---------------------------------------------------------------------- *)
(* generate(): steps                                                       *)
(* ---------------------------------------------------------------------- *)
\* lines 436-486: argument checks, initial context
GenerateEnter ==
    /\ UNCHANGED train_vars
    /\ g_pc = "call"
    /\ IF ArgumentsAccepted(nsamples, batch_size, prefix, batch_prefix,
                            length, truncate)
       THEN /\ g_pc' = "outer"
            /\ context_tokens' =
                 InitialContext(prefix, batch_prefix, batch_size)
            /\ f_open' = Truthy(destination_path)
       ELSE /\ g_pc' = "AssertionError"
            /\ UNCHANGED <<context_tokens, f_open>>
    /\ UNCHANGED <<sample_delim, destination_path, return_as_list, f_writes, printed,
                   returned, matched, own_text>>
    /\ UNCHANGED <<nsamples, batch_size, length, truncate, prefix,
                   batch_prefix, include_prefix, split_context, generated,
                   gen_texts, gen_text, truncated, total_tokens, calls,
                   stream, gen_toks, gen_streams>>

\* lines 487-491
BatchStart ==
    /\ UNCHANGED train_vars
    /\ g_pc = "outer"
    /\ generated < nsamples
    /\ g_pc' = "inner"
    /\ gen_text' = [j \in Slots |-> <<>>]
    /\ truncated' = [j \in Slots |-> FALSE]
    /\ total_tokens' = 0
    /\ calls' = 0
    /\ stream' = [j \in Slots |-> <<>>]
    /\ matched' = [j \in Slots |-> FALSE]
    /\ own_text' = [j \in Slots |-> <<>>]
    /\ UNCHANGED <<sample_delim, destination_path, return_as_list, f_open, f_writes,
                   printed, returned>>
    /\ UNCHANGED <<nsamples, batch_size, length, truncate, prefix,
                   batch_prefix, include_prefix, split_context,
                   context_tokens, generated, gen_texts, gen_toks,
                   gen_streams>>

\* lines 493-547: one pass of the inner loop
ModelCall ==
    /\ UNCHANGED train_vars
    /\ g_pc = "inner"
    /\ \E j \in Slots : ~truncated[j]
    /\ calls < MaxCalls
    /\ IF ~Rectangular(context_tokens)
       THEN \* the feed of line 503 is not a matrix: sess.run raises
            /\ g_pc' = "feed_error"
            /\ UNCHANGED <<context_tokens, gen_text, truncated, total_tokens,
                           calls, stream, matched, own_text>>
       ELSE LET num_tokens == Window - Len(context_tokens[1])
                n == SampleLength(length, num_tokens)
            IN  \E new \in [Slots -> SeqsOfLen(SampleTokens, n)] :
                  LET out   == ModelOutput(context_tokens, new)
                      total == total_tokens + num_tokens
                      st    == ForSlots(1, [ctx |-> context_tokens,
                                            gt  |-> gen_text,
                                            tr  |-> truncated,
                                            mt  |-> matched,
                                            own |-> own_text], out, total)
                  IN  /\ context_tokens' = st.ctx
                      /\ gen_text' = st.gt
                      /\ truncated' = st.tr
                      /\ matched' = st.mt
                      /\ own_text' = st.own
                      /\ total_tokens' = total
                      /\ calls' = calls + 1
                      /\ stream' = [j \in Slots |->
                                      IF truncated[j] THEN stream[j]
                                      ELSE stream[j] \o new[j]]
                      /\ g_pc' = "inner"
    /\ UNCHANGED <<sample_delim, destination_path, return_as_list, f_open, f_writes,
                   printed, returned>>
    /\ UNCHANGED <<nsamples, batch_size, length, truncate, prefix,
                   batch_prefix, include_prefix, split_context, generated,
                   gen_texts, gen_toks, gen_streams>>

\* lines 495-505: the model service fails (or the run is interrupted) in
\* sess.run; nothing in generate catches it
ModelCallFails ==
    /\ UNCHANGED train_vars
    /\ g_pc = "inner"
    /\ \E j \in Slots : ~truncated[j]
    /\ g_pc' = "model_error"
    /\ UNCHANGED <<nsamples, batch_size, length, truncate, prefix,
                   batch_prefix, include_prefix, split_context,
                   destination_path, return_as_list, sample_delim,
                   context_tokens,
                   generated, gen_texts, gen_text, truncated, total_tokens,
                   f_open, f_writes, printed, returned, calls, stream,
                   gen_toks, gen_streams, matched, own_text>>

\* lines 549-558
BatchEnd ==
    /\ UNCHANGED train_vars
    /\ g_pc = "inner"
    /\ \A j \in Slots : truncated[j]
    /\ gen_texts' = gen_texts \o BatchTexts(gen_text)
    /\ LET lines == [j \in 1..Len(BatchTexts(gen_text)) |->
                       Formatted(BatchTexts(gen_text)[j], nsamples,
                                 sample_delim)]
       IN  /\ f_writes' = IF WritesFile(destination_path)
                           THEN f_writes \o lines ELSE f_writes
           /\ printed' = IF Prints(destination_path, return_as_list)
                          THEN printed \o lines ELSE printed
    /\ UNCHANGED <<sample_delim, destination_path, return_as_list, f_open, returned,
                   matched, own_text>>
    /\ gen_toks' = gen_toks \o [j \in Slots |-> Join(gen_text[j])]
    /\ gen_streams' = gen_streams \o stream
    /\ generated' = generated + batch_size
    /\ g_pc' = "outer"
    /\ UNCHANGED <<nsamples, batch_size, length, truncate, prefix,
                   batch_prefix, include_prefix, split_context,
                   context_tokens, gen_text, truncated, total_tokens, calls,
                   stream>>

\* lines 487, 560-564
GenerateReturn ==
    /\ UNCHANGED train_vars
    /\ g_pc = "outer"
    /\ generated >= nsamples
    /\ g_pc' = "returned"
    /\ f_open' = IF Truthy(destination_path) THEN FALSE ELSE f_open
    /\ returned' = IF return_as_list THEN <<"list", gen_texts>> ELSE None
    /\ UNCHANGED <<sample_delim, destination_path, return_as_list, f_writes, printed,
                   matched, own_text>>
    /\ UNCHANGED <<nsamples, batch_size, length, truncate, prefix,
                   batch_prefix, include_prefix, split_context,
                   context_tokens, generated, gen_texts, gen_text, truncated,
                   total_tokens, calls, stream, gen_toks, gen_streams>>

NextGen ==
    \/ GenerateEnter
    \/ BatchStart
    \/ ModelCall
    \/ ModelCallFails
    \/ BatchEnd
    \/ GenerateReturn

SpecGen == InitGen /\ [][NextGen]_vars

(* ---------------------------------------------------------------------- *)
(* finetune(): helpers                                                     *)
(* ---------------------------------------------------------------------- *)
\* largest value of the loop counter explored
MaxCounter == 11
\* largest accumulate_gradients tried
MaxAccumulate == 3

DigitChars == <<"0", "1", "2", "3", "4", "5", "6", "7", "8", "9">>

\* str(n) for n >= 0
RECURSIVE StrOf(_)
StrOf(n) ==
    IF n < 10 THEN <<DigitChars[n + 1]>>
    ELSE StrOf(n \div 10) \o <<DigitChars[(n % 10) + 1]>>

DigitValue(c) == CHOOSE d \in 0..9 : DigitChars[d + 1] = c

RECURSIVE RStripNL(_)
RStripNL(text) ==
    IF text # <<>> /\ text[Len(text)] = "nl"
    THEN RStripNL(SubSeq(text, 1, Len(text) - 1))
    ELSE text

RECURSIVE DigitsValue(_)
DigitsValue(text) ==
    IF text = <<>> THEN 0
    ELSE 10 * DigitsValue(SubSeq(text, 1, Len(text) - 1))
         + DigitValue(text[Len(text)])

\* int(text): surrounding whitespace is ignored
IntOf(text) == DigitsValue(RStripNL(LStripNL(text)))

\* variant: the loop counter itself is written
CounterFileTextOfCounter(c) == StrOf(c) \o <<"nl">>

\* save(), line 289: the text written to the counter file
CounterFileText(c) == StrOf(c - 1) \o <<"nl">>

\* save(), lines 284-287: global_step of the checkpoint written
SavedStep(c) == c - 1

\* variant: the step number of the counter file is not loaded
ResumeCounterFromOne(file, rf) == 1

\* lines 269-275
ResumeCounter(file, rf) ==
    IF file # None /\ rf = "latest" THEN IntOf(file) + 1 ELSE 1

BaseCheckpoint == [dir |-> "base", step |-> 0]
NoCheckpoint == [dir |-> "none", step |-> 0]

\* tf.train.latest_checkpoint of a directory whose newest checkpoint has
\* step latest (-1: the directory has no checkpoint)
LatestCheckpoint(dir, latest) ==
    IF latest < 0 THEN NoCheckpoint ELSE [dir |-> dir, step |-> latest]

\* variant: 'fresh' treated like 'latest'
SelectCheckpointPreferRun(rf, runLatest, pathLatest) ==
    IF rf \in {"latest", "fresh"}
    THEN IF LatestCheckpoint("run", runLatest) = NoCheckpoint
         THEN BaseCheckpoint
         ELSE LatestCheckpoint("run", runLatest)
    ELSE LatestCheckpoint("path", pathLatest)

\* lines 242-252
SelectCheckpoint(rf, runLatest, pathLatest) ==
    IF rf = "latest"
    THEN IF LatestCheckpoint("run", runLatest) = NoCheckpoint
         THEN BaseCheckpoint
         ELSE LatestCheckpoint("run", runLatest)
    ELSE IF rf = "fresh" THEN BaseCheckpoint
    ELSE LatestCheckpoint("path", pathLatest)

\* lines 184-187
EffectiveAccumulate(mn, a) == IF mn \notin {"117M", "124M"} THEN 1 ELSE a
EffectiveMemorySaving(mn, msg) == IF mn \notin {"117M", "124M"} THEN TRUE ELSE msg

\* variant: the test of line 217 is inverted
UnsupportedWithoutMemorySaving(a, msg) == a > 1 /\ ~msg

\* lines 216-218: the combination finetune refuses
UnsupportedCombination(a, msg) == a > 1 /\ msg

\* variant: the budget test is one step late
BudgetReachedLate(st, c, base) == st > 0 /\ c = base + st + 1

\* line 329
BudgetReached(st, c, base) == st > 0 /\ c = base + st

\* variant: the save test reads the counter itself
SaveDueOnCounter(c, every) == c % every = 0 /\ c > 1

\* line 332
SaveDue(c, every) == (c - 1) % every = 0 /\ c > 1

\* line 334
SampleDue(c, every) == (c - 1) % every = 0 /\ c > 1

\* variant: one compute too many
MoreComputesInclusive(n, a) == n <= a

\* line 339: the accumulation loop goes on after n computes
MoreComputes(n, a) == n < a

\* line 315
OverwriteAnyRestore(ow, rf) == ow

\* line 315: the startup files are deleted and a save is made
OverwriteApplies(ow, rf) == ow /\ rf = "latest"

\* line 256: the dataset goes to the uniform sampler
UsesUniformSampler(d) == ~d.list \/ (Len(d.paths) = 1 /\ d.list)

\* line 299 with every round taken in full
SampleRoundFull(sn, index, bs) == bs

\* line 299: texts taken from one model call of generate_samples
SampleRound(sn, index, bs) == Min(sn - index, bs)

\* lines 300-304: one entry of all_text, the banner number and the text
SampleEntry(n) == [banner |-> n, text |-> "decoded"]

\* lines 293-304: all_text when the loop of line 295 is over
RECURSIVE SampleTexts(_, _, _, _)
SampleTexts(index, all_text, sn, bs) ==
    IF index < sn
    THEN LET k == SampleRound(sn, index, bs)
         IN  SampleTexts(index + k,
                         all_text \o [i \in 1..k |-> SampleEntry(index + i)],
                         sn, bs)
    ELSE all_text

\* lines 306-310: the file samples-<counter>
SamplesFile(c, sn, bs) ==
    [counter |-> c, texts |-> SampleTexts(0, <<>>, sn, bs)]

\* 0.99 and 1.0 of lines 351-352, in hundredths
Decay == 99
AvgScale == 100

\* line 350
PrintDue(c, every) == c % every = 0

\* lines 351-352
AvgUpdate(avg, v) ==
    <<(avg[1] * Decay) \div AvgScale + v * AvgScale,
      (avg[2] * Decay) \div AvgScale + AvgScale>>

\* avg_loss[0] / avg_loss[1] of line 360, in hundredths
ReportedAverage(avg) == (avg[1] * AvgScale) \div avg[2]

\* positions inside the try block of lines 327-362
InLoop == {"top", "save", "sample", "train", "compute", "apply", "report"}
Terminal == {"completed", "stopped", "exit", "error", "raised", "NameError"}

\* save() called while the loop counter is c
Save(c) ==
    /\ counter_file' = CounterFileText(c)
    /\ run_latest' = SavedStep(c)
    /\ save_tick' = 1 - save_tick
    /\ last_save_counter' = c
    /\ call_saves' = call_saves + 1

NoSave ==
    UNCHANGED <<counter_file, run_latest, save_tick, last_save_counter,
                call_saves>>

(* ---------------------------------------------------------------------- *)
(* finetune(): inputs                                                      *)
(* ---------------------------------------------------------------------- *)
StepsOptions == {-1, 1, 2}
SaveEveryOptions == {1, 2}
SampleEveryOptions == {2}
AccumulateOptions == {1, MaxAccumulate}
ModelNames == {"124M", "355M"}
RestoreOptions == {"latest", "fresh", "path"}
PathLatestOptions == {-1, 7}
SampleNumOptions == {1, 3}
TrainBatchOptions == {1, 2}
PrintEveryOptions == {1, 2}
LossOptions == {2}
PathDataset == [list |-> FALSE, paths |-> <<"p">>]
DatasetOptions == {PathDataset,
                   [list |-> TRUE, paths |-> <<"p">>],
                   [list |-> TRUE, paths |-> <<"p", "q">>]}

\* the training arguments with which sample_num, batch_size, print_every
\* and dataset are varied
PlainTraining(mn, a, rf, ow, msg) ==
    mn = "124M" /\ a = 1 /\ rf = "latest" /\ ~ow /\ ~msg

\* finetune()'s arguments and directory facts that no loop step changes
train_frame == <<sample_num, train_batch_size, print_every, dataset,
                 dir_has_files, old_files>>

InitTrain ==
    /\ TrainIdle
    /\ nsamples = 1
    /\ batch_size = 1
    /\ length = LenNone
    /\ truncate = None
    /\ prefix = None
    /\ batch_prefix = <<>>
    /\ include_prefix = TRUE
    /\ split_context = <<1, 2>>
    /\ destination_path = None
    /\ return_as_list = FALSE
    /\ sample_delim = DefaultDelim
    /\ f_open = FALSE
    /\ f_writes = <<>>
    /\ printed = <<>>
    /\ returned = None
    /\ matched = <<>>
    /\ own_text = <<>>
    /\ g_pc = "off"
    /\ context_tokens = <<>>
    /\ generated = 0
    /\ gen_texts = <<>>
    /\ gen_text = <<>>
    /\ truncated = <<>>
    /\ total_tokens = 0
    /\ calls = 0
    /\ stream = <<>>
    /\ gen_toks = <<>>
    /\ gen_streams = <<>>

(* ---------------------------------------------------------------------- *)
(* finetune(): steps                                                       *)
(* ---------------------------------------------------------------------- *)
\* lines 125-325: a call of finetune on the run, up to the training loop
FinetuneEnter ==
    /\ UNCHANGED gen_vars
    /\ t_pc = "idle"
    /\ steps' \in StepsOptions
    /\ save_every' \in SaveEveryOptions
    /\ sample_every' \in SampleEveryOptions
    /\ arg_accumulate' \in AccumulateOptions
    /\ model_name' \in ModelNames
    /\ restore_from' \in RestoreOptions
    /\ overwrite' \in BOOLEAN
    /\ path_latest' \in IF restore_from' = "path" THEN PathLatestOptions ELSE {-1}
    /\ arg_memory_saving' \in BOOLEAN
    /\ use_memory_saving_gradients' =
         EffectiveMemorySaving(model_name', arg_memory_saving')
    /\ accumulate_gradients' = EffectiveAccumulate(model_name', arg_accumulate')
    /\ applies' = 0
    /\ sample_runs' = 0
    /\ it_resets' = 0
    /\ it_computes' = 0
    /\ it_batches' = 0
    /\ it_applies' = 0
    /\ LET plain == PlainTraining(model_name', arg_accumulate',
                                  restore_from', overwrite',
                                  arg_memory_saving')
       IN  /\ sample_num' \in IF plain THEN SampleNumOptions ELSE {1}
           /\ train_batch_size' \in IF plain THEN TrainBatchOptions ELSE {1}
           /\ print_every' \in IF plain THEN PrintEveryOptions ELSE {1}
           /\ dataset' \in IF plain THEN DatasetOptions ELSE {PathDataset}
    /\ avg_loss' = <<0, 0>>
    /\ sample_file' = [counter |-> 0, texts |-> <<>>]
    /\ IF UnsupportedCombination(accumulate_gradients',
                                 use_memory_saving_gradients')
       THEN \* line 218
            /\ t_pc' = "exit"
            /\ UNCHANGED <<counter, counter_base, ckpt, dir_has_files>>
            /\ old_files' = dir_has_files
            /\ NoSave
       ELSE \* line 235 puts an events file into the directory
            /\ dir_has_files' = TRUE
            /\ ckpt' = SelectCheckpoint(restore_from', run_latest, path_latest')
            /\ IF ckpt' = NoCheckpoint
               THEN \* line 254: nothing to restore
                    /\ t_pc' = "error"
                    /\ UNCHANGED <<counter, counter_base>>
                    /\ old_files' = dir_has_files
                    /\ NoSave
               ELSE IF ~UsesUniformSampler(dataset')
               THEN \* line 262: dataset_probs is not defined anywhere
                    /\ t_pc' = "NameError"
                    /\ UNCHANGED <<counter, counter_base>>
                    /\ old_files' = dir_has_files
                    /\ NoSave
               ELSE /\ counter' = ResumeCounter(counter_file, restore_from')
                    /\ counter' <= MaxCounter
                    /\ counter_base' = counter'
                    /\ t_pc' = "top"
                    /\ IF OverwriteApplies(overwrite', restore_from')
                       THEN \* lines 316-319
                            /\ old_files' = FALSE
                            /\ Save(counter')
                       ELSE /\ old_files' = dir_has_files
                            /\ NoSave

\* lines 329-331
LoopTop ==
    /\ UNCHANGED gen_vars
    /\ UNCHANGED train_frame
    /\ UNCHANGED avg_loss
    /\ UNCHANGED sample_file
    /\ t_pc = "top"
    /\ it_resets' = 0
    /\ it_computes' = 0
    /\ it_batches' = 0
    /\ it_applies' = 0
    /\ IF BudgetReached(steps, counter, counter_base)
       THEN Save(counter) /\ t_pc' = "completed"
       ELSE NoSave /\ t_pc' = "save"
    /\ UNCHANGED <<steps, save_every, sample_every, accumulate_gradients,
                   model_name, restore_from, overwrite,
                   use_memory_saving_gradients, counter, counter_base, ckpt,
                   arg_accumulate, arg_memory_saving, path_latest, applies, sample_runs>>

\* lines 332-333
PeriodicSave ==
    /\ UNCHANGED gen_vars
    /\ UNCHANGED train_frame
    /\ UNCHANGED avg_loss
    /\ UNCHANGED sample_file
    /\ t_pc = "save"
    /\ IF SaveDue(counter, save_every) THEN Save(counter) ELSE NoSave
    /\ t_pc' = "sample"
    /\ UNCHANGED <<steps, save_every, sample_every, accumulate_gradients,
                   model_name, restore_from, overwrite,
                   use_memory_saving_gradients, counter, counter_base, ckpt,
                   arg_accumulate, arg_memory_saving, path_latest, applies, sample_runs,
                   it_resets, it_computes, it_batches, it_applies>>

\* lines 334-335
PeriodicSample ==
    /\ UNCHANGED gen_vars
    /\ UNCHANGED train_frame
    /\ UNCHANGED avg_loss
    /\ t_pc = "sample"
    /\ IF SampleDue(counter, sample_every)
       THEN \* generate_samples(), lines 291-310
            /\ sample_runs' = sample_runs + 1
            /\ sample_file' = SamplesFile(counter, sample_num,
                                          train_batch_size)
       ELSE UNCHANGED <<sample_runs, sample_file>>
    /\ t_pc' = "train"
    /\ NoSave
    /\ UNCHANGED <<steps, save_every, sample_every, accumulate_gradients,
                   model_name, restore_from, overwrite,
                   use_memory_saving_gradients, counter, counter_base, ckpt,
                   arg_accumulate, arg_memory_saving, path_latest, applies,
                   it_resets, it_computes, it_batches, it_applies>>

\* lines 337-338
AccumulateReset ==
    /\ UNCHANGED gen_vars
    /\ UNCHANGED train_frame
    /\ UNCHANGED avg_loss
    /\ UNCHANGED sample_file
    /\ t_pc = "train"
    /\ accumulate_gradients > 1
    /\ it_resets' = it_resets + 1
    /\ t_pc' = "compute"
    /\ NoSave
    /\ UNCHANGED <<steps, save_every, sample_every, accumulate_gradients,
                   model_name, restore_from, overwrite,
                   use_memory_saving_gradients, counter, counter_base, ckpt,
                   arg_accumulate, arg_memory_saving, path_latest, applies, sample_runs,
                   it_computes, it_batches, it_applies>>

\* lines 339-341: one pass of the accumulation loop
AccumulateCompute ==
    /\ UNCHANGED gen_vars
    /\ UNCHANGED train_frame
    /\ UNCHANGED avg_loss
    /\ UNCHANGED sample_file
    /\ t_pc = "compute"
    /\ it_batches' = it_batches + 1
    /\ it_computes' = it_computes + 1
    /\ t_pc' = IF MoreComputes(it_computes', accumulate_gradients)
               THEN "compute" ELSE "apply"
    /\ NoSave
    /\ UNCHANGED <<steps, save_every, sample_every, accumulate_gradients,
                   model_name, restore_from, overwrite,
                   use_memory_saving_gradients, counter, counter_base, ckpt,
                   arg_accumulate, arg_memory_saving, path_latest, applies, sample_runs,
                   it_resets, it_applies>>

\* line 342
AccumulateApply ==
    /\ UNCHANGED gen_vars
    /\ UNCHANGED train_frame
    /\ UNCHANGED avg_loss
    /\ UNCHANGED sample_file
    /\ t_pc = "apply"
    /\ applies' = applies + 1
    /\ it_applies' = it_applies + 1
    /\ t_pc' = "report"
    /\ NoSave
    /\ UNCHANGED <<steps, save_every, sample_every, accumulate_gradients,
                   model_name, restore_from, overwrite,
                   use_memory_saving_gradients, counter, counter_base, ckpt,
                   arg_accumulate, arg_memory_saving, path_latest, sample_runs,
                   it_resets, it_computes, it_batches>>

\* lines 343-346: gradients of one batch computed and applied in one run
SingleStep ==
    /\ UNCHANGED gen_vars
    /\ UNCHANGED train_frame
    /\ UNCHANGED avg_loss
    /\ UNCHANGED sample_file
    /\ t_pc = "train"
    /\ accumulate_gradients <= 1
    /\ it_batches' = it_batches + 1
    /\ it_computes' = it_computes + 1
    /\ applies' = applies + 1
    /\ it_applies' = it_applies + 1
    /\ t_pc' = "report"
    /\ NoSave
    /\ UNCHANGED <<steps, save_every, sample_every, accumulate_gradients,
                   model_name, restore_from, overwrite,
                   use_memory_saving_gradients, counter, counter_base, ckpt,
                   arg_accumulate, arg_memory_saving, path_latest, sample_runs, it_resets>>

\* lines 348-362
Report ==
    /\ UNCHANGED gen_vars
    /\ UNCHANGED train_frame
    /\ UNCHANGED sample_file
    /\ t_pc = "report"
    /\ counter < MaxCounter
    /\ \E v_loss \in LossOptions :
         avg_loss' = IF PrintDue(counter, print_every)
                     THEN AvgUpdate(avg_loss, v_loss) ELSE avg_loss
    /\ counter' = counter + 1
    /\ t_pc' = "top"
    /\ NoSave
    /\ UNCHANGED <<steps, save_every, sample_every, accumulate_gradients,
                   model_name, restore_from, overwrite,
                   use_memory_saving_gradients, counter_base, ckpt,
                   arg_accumulate, arg_memory_saving, path_latest, applies, sample_runs,
                   it_resets, it_computes, it_batches, it_applies>>

\* KeyboardInterrupt raised somewhere in the try block of lines 327-362
Interrupt ==
    /\ UNCHANGED gen_vars
    /\ UNCHANGED train_frame
    /\ UNCHANGED avg_loss
    /\ UNCHANGED sample_file
    /\ t_pc \in InLoop
    /\ t_pc' = "interrupted"
    /\ NoSave
    /\ UNCHANGED <<steps, save_every, sample_every, accumulate_gradients,
                   model_name, restore_from, overwrite,
                   use_memory_saving_gradients, counter, counter_base, ckpt,
                   arg_accumulate, arg_memory_saving, path_latest, applies, sample_runs,
                   it_resets, it_computes, it_batches, it_applies>>

\* variant: the handler swallows the interrupt and the loop goes on
InterruptSwallowed ==
    /\ UNCHANGED gen_vars
    /\ UNCHANGED train_frame
    /\ UNCHANGED avg_loss
    /\ UNCHANGED sample_file
    /\ t_pc = "interrupted"
    /\ t_pc' = "top"
    /\ NoSave
    /\ UNCHANGED <<steps, save_every, sample_every, accumulate_gradients,
                   model_name, restore_from, overwrite,
                   use_memory_saving_gradients, counter, counter_base, ckpt,
                   arg_accumulate, arg_memory_saving, path_latest, applies, sample_runs,
                   it_resets, it_computes, it_batches, it_applies>>

\* lines 363-365
InterruptSave ==
    /\ UNCHANGED gen_vars
    /\ UNCHANGED train_frame
    /\ UNCHANGED avg_loss
    /\ UNCHANGED sample_file
    /\ t_pc = "interrupted"
    /\ Save(counter)
    /\ t_pc' = "stopped"
    /\ UNCHANGED <<steps, save_every, sample_every, accumulate_gradients,
                   model_name, restore_from, overwrite,
                   use_memory_saving_gradients, counter, counter_base, ckpt,
                   arg_accumulate, arg_memory_saving, path_latest, applies, sample_runs,
                   it_resets, it_computes, it_batches, it_applies>>

\* variant: the handler of line 363 catches every exception
FailureSaved ==
    /\ UNCHANGED gen_vars
    /\ UNCHANGED train_frame
    /\ UNCHANGED avg_loss
    /\ UNCHANGED sample_file
    /\ t_pc \in InLoop
    /\ t_pc' = "raised"
    /\ Save(counter)
    /\ UNCHANGED <<steps, save_every, sample_every, accumulate_gradients,
                   model_name, restore_from, overwrite,
                   use_memory_saving_gradients, counter, counter_base, ckpt,
                   arg_accumulate, arg_memory_saving, path_latest, applies,
                   sample_runs, it_resets, it_computes, it_batches,
                   it_applies>>

\* a step of the try block of lines 327-362 raises something that is not a
\* KeyboardInterrupt: line 363 does not catch it, it leaves finetune
Failure ==
    /\ UNCHANGED gen_vars
    /\ UNCHANGED train_frame
    /\ UNCHANGED avg_loss
    /\ UNCHANGED sample_file
    /\ t_pc \in InLoop
    /\ t_pc' = "raised"
    /\ NoSave
    /\ UNCHANGED <<steps, save_every, sample_every, accumulate_gradients,
                   model_name, restore_from, overwrite,
                   use_memory_saving_gradients, counter, counter_base, ckpt,
                   arg_accumulate, arg_memory_saving, path_latest, applies,
                   sample_runs, it_resets, it_computes, it_batches,
                   it_applies>>

\* the call is over (lines 218, 254, 331, 365): its arguments and locals
\* are gone, the run's directory stays
FinetuneReturn ==
    /\ UNCHANGED gen_vars
    /\ t_pc \in Terminal
    /\ t_pc' = "idle"
    /\ steps' = -1
    /\ save_every' = 1
    /\ sample_every' = 1
    /\ accumulate_gradients' = 1
    /\ model_name' = "124M"
    /\ restore_from' = "latest"
    /\ overwrite' = FALSE
    /\ use_memory_saving_gradients' = FALSE
    /\ counter' = 1
    /\ counter_base' = 1
    /\ ckpt' = NoCheckpoint
    /\ arg_accumulate' = 1
    /\ arg_memory_saving' = FALSE
    /\ path_latest' = -1
    /\ applies' = 0
    /\ sample_runs' = 0
    /\ it_resets' = 0
    /\ it_computes' = 0
    /\ it_batches' = 0
    /\ it_applies' = 0
    /\ UNCHANGED <<counter_file, run_latest, save_tick, last_save_counter>>
    /\ call_saves' = 0
    /\ sample_num' = 1
    /\ train_batch_size' = 1
    /\ print_every' = 1
    /\ dataset' = PathDataset
    /\ avg_loss' = <<0, 0>>
    /\ sample_file' = [counter |-> 0, texts |-> <<>>]
    /\ old_files' = FALSE
    /\ UNCHANGED dir_has_files

NextTrain ==
    \/ FinetuneEnter
    \/ FinetuneReturn
    \/ LoopTop
    \/ PeriodicSave
    \/ PeriodicSample
    \/ AccumulateReset
    \/ AccumulateCompute
    \/ AccumulateApply
    \/ SingleStep
    \/ Report
    \/ Interrupt
    \/ InterruptSave
    \/ Failure

SpecTrain == InitTrain /\ [][NextTrain]_vars

\* an interrupted call that is allowed to go on reaches its handler
SpecTrainFair == SpecTrain /\ WF_vars(InterruptSave)

(* ---------------------------------------------------------------------- *)
(* Properties of generate()                                                *)
(* ---------------------------------------------------------------------- *)
DefaultContext == ~Truthy(prefix) /\ batch_prefix = <<>>

SampleHasLengthTokens ==
    (g_pc = "returned" /\ truncate = None /\ length # LenNone /\ DefaultContext)
        => \A k \in 1..Len(gen_toks) : Len(gen_toks[k]) = length

\* C3: when the truncation term occurs in what was sampled for a slot, the
\* text returned for that slot does not contain the term
ReturnedTextLacksDelimiter ==
    (g_pc = "returned" /\ Truthy(truncate))
        => \A k \in 1..Len(gen_texts) :
             Contains(Decode(gen_streams[k]), truncate)
                 => ~Contains(gen_texts[k], truncate)

(* ---------------------------------------------------------------------- *)
(* Properties of finetune()                                                *)
(* ---------------------------------------------------------------------- *)
SaveStep == save_tick' # save_tick
EnterLoopStep == t_pc = "idle" /\ t_pc' = "top"
SmallModel == model_name \in {"117M", "124M"}

\* C4: a save made at loop counter c leaves c-1 in the counter file, and a
\* later call with restore_from = 'latest' starts its loop at that c
SaveResumeRoundTrip ==
    [][/\ SaveStep => IntOf(counter_file') = counter' - 1
       /\ (EnterLoopStep /\ restore_from' = "latest" /\ counter_file # None)
             => /\ counter' = last_save_counter
                /\ counter' = IntOf(counter_file) + 1]_vars

WitnessSaveResumeRoundTrip ==
    /\ t_pc = "top"
    /\ restore_from = "latest"
    /\ ~overwrite
    /\ call_saves = 0
    /\ applies = 0
    /\ counter = 11
    /\ last_save_counter = 11
    /\ counter_file = <<"1", "0", "nl">>

\* C5, as claimed: each save writes a larger value than the save before it
SavedCounterStrictlyIncreases ==
    [][(SaveStep /\ counter_file # None)
          => IntOf(counter_file') > IntOf(counter_file)]_vars

\* C5, amended: inside one call, and in a call that resumed from 'latest',
\* a save never writes less than the counter file held before it
SavedCounterNeverDecreases ==
    [][(SaveStep /\ counter_file # None
          /\ (call_saves > 0 \/ restore_from' = "latest"))
          => IntOf(counter_file') >= IntOf(counter_file)]_vars

WitnessSavedCounterNeverDecreases ==
    /\ t_pc = "stopped"
    /\ call_saves = 2
    /\ counter = 3
    /\ save_every = 2
    /\ counter_file = <<"2", "nl">>

\* C6: a call with step budget S that completes has applied S optimizer
\* steps, one per counter value, and left counter_base+S-1 in the file
BudgetRunsExactlySteps ==
    /\ [](t_pc \in InLoop =>
            applies = (counter - counter_base)
                      + (IF t_pc = "report" THEN 1 ELSE 0))
    /\ [](t_pc = "completed" =>
            /\ steps > 0
            /\ applies = steps
            /\ counter = counter_base + steps
            /\ IntOf(counter_file) = counter_base + steps - 1)
    /\ [][t_pc' = "completed" =>
            /\ t_pc = "top"
            /\ call_saves' = call_saves + 1
            /\ applies' = applies]_vars

WitnessBudgetRunsExactlySteps ==
    /\ t_pc = "completed"
    /\ steps = 2
    /\ counter_base = 4
    /\ applies = 2
    /\ counter_file = <<"5", "nl">>

\* C7: after an interrupt the only thing the call does is the final save,
\* and then it is over: no optimizer step, no sample, nothing else
InterruptSavesAndStops ==
    /\ [][t_pc = "interrupted" =>
            /\ t_pc' = "stopped"
            /\ SaveStep
            /\ call_saves' = call_saves + 1
            /\ applies' = applies
            /\ sample_runs' = sample_runs
            /\ counter' = counter]_vars
    /\ [][t_pc = "stopped" => t_pc' = "idle"]_vars
    /\ (t_pc = "interrupted" ~> t_pc = "stopped")

WitnessInterruptSavesAndStops ==
    /\ t_pc = "stopped"
    /\ accumulate_gradients = MaxAccumulate
    /\ it_computes = 1
    /\ call_saves = 1
    /\ counter = 2

\* C8, as claimed: the interrupt save finds every begun step completed
InterruptOnlyBetweenIterations ==
    t_pc = "stopped" =>
        /\ IntOf(counter_file) = counter_base - 1 + applies
        /\ it_computes \in {0, accumulate_gradients}

\* C8, amended: the interrupt save writes counter-1, which is the number of
\* applied steps or one less than it (apply done, counter not yet advanced)
InterruptSaveWithinOneStep ==
    t_pc = "stopped" =>
        /\ IntOf(counter_file) = counter - 1
        /\ \/ IntOf(counter_file) = counter_base - 1 + applies
           \/ IntOf(counter_file) = counter_base - 1 + applies - 1

WitnessInterruptSaveWithinOneStep ==
    /\ t_pc = "stopped"
    /\ counter_base = 3
    /\ counter = 4
    /\ applies = 2
    /\ counter_file = <<"3", "nl">>

\* C9: 'fresh' restores the base checkpoint whatever the run directory
\* holds; 'latest' restores the run's newest checkpoint, or the base one
\* when the run has none
RestorePolicy ==
    [][EnterLoopStep =>
         /\ restore_from' = "fresh" => ckpt' = [dir |-> "base", step |-> 0]
         /\ restore_from' = "latest" =>
              ckpt' = IF run_latest >= 0
                      THEN [dir |-> "run", step |-> run_latest]
                      ELSE [dir |-> "base", step |-> 0]]_vars

WitnessRestorePolicy ==
    /\ t_pc = "top"
    /\ restore_from = "fresh"
    /\ call_saves = 0
    /\ run_latest = 2
    /\ ckpt = [dir |-> "base", step |-> 0]

\* C10, as claimed: accumulate_gradients = A > 1 in the call means A
\* computes and one apply in every iteration
AccumulatesArgumentTimes ==
    (arg_accumulate > 1 /\ it_applies >= 1) =>
        /\ it_resets = 1
        /\ it_computes = arg_accumulate
        /\ it_applies = 1

\* C10, amended: that holds for the models 117M and 124M; for any other
\* model an iteration is one compute-and-apply on one batch
AccumulatesForSmallModels ==
    /\ (arg_accumulate > 1 /\ SmallModel /\ t_pc # "idle" /\ it_applies >= 1) =>
          /\ it_resets = 1
          /\ it_computes = arg_accumulate
          /\ it_batches = arg_accumulate
          /\ it_applies = 1
    /\ (~SmallModel /\ it_applies >= 1) =>
          /\ it_resets = 0
          /\ it_computes = 1
          /\ it_batches = 1
          /\ it_applies = 1
    /\ (t_pc = "apply" => it_applies = 0 /\ it_computes = accumulate_gradients)

WitnessAccumulatesForSmallModels ==
    /\ t_pc = "report"
    /\ arg_accumulate = MaxAccumulate
    /\ model_name = "124M"
    /\ it_resets = 1
    /\ it_computes = MaxAccumulate
    /\ it_applies = 1

(* ---------------------------------------------------------------------- *)
(* Properties of generate(): outputs, argument checks, slots               *)
(* ---------------------------------------------------------------------- *)
\* the ways the k-th generated text went out of generate
Delivered(k) ==
    {ch \in {"file", "print", "list"} :
        \/ /\ ch = "file"
           /\ k <= Len(f_writes)
           /\ f_writes[k] = Formatted(gen_texts[k], nsamples, sample_delim)
        \/ /\ ch = "print"
           /\ k <= Len(printed)
           /\ printed[k] = Formatted(gen_texts[k], nsamples, sample_delim)
        \/ /\ ch = "list"
           /\ returned # None
           /\ k <= Len(returned[2])
           /\ returned[2][k] = gen_texts[k]}

\* C11 (as stated): when generate has returned, every generated text went
\* out through exactly one of file, standard output and returned list.
OneOutputPerText ==
    g_pc = "returned" =>
        \A k \in 1..Len(gen_texts) : Cardinality(Delivered(k)) = 1

\* C11 (amended): when generate has returned, every generated text is in the
\* file exactly when destination_path is set, on standard output exactly
\* when destination_path is unset and return_as_list is false, and in the
\* returned list exactly when return_as_list is true; so it is in the file
\* and in the list when both are asked for, and never printed together
\* with another output.
OutputsFollowArguments ==
    g_pc = "returned" =>
        \A k \in 1..Len(gen_texts) :
            /\ ("file" \in Delivered(k)) = Truthy(destination_path)
            /\ ("print" \in Delivered(k)) =
                   (~return_as_list /\ ~Truthy(destination_path))
            /\ ("list" \in Delivered(k)) = return_as_list
            /\ "print" \in Delivered(k) => Delivered(k) = {"print"}

WitnessOutputsFollowArguments ==
    /\ g_pc = "returned"
    /\ Truthy(destination_path)
    /\ return_as_list
    /\ Len(gen_texts) = 2
    /\ Delivered(2) = {"file", "list"}

\* the argument combinations C12 names
RefusedArguments ==
    \/ nsamples % batch_size # 0
    \/ Truthy(prefix) /\ batch_prefix # <<>>
    \/ length = LenNone /\ ~Truthy(truncate)

\* C12: with nsamples not a multiple of batch_size, or prefix and
\* batch_prefix both given, or neither a length nor a non-empty truncation
\* term, generate goes from its call to an AssertionError and nowhere else,
\* so no model call is made.
AssertionBeforeModelCall ==
    (g_pc # "off" /\ RefusedArguments) =>
        (g_pc \in {"call", "AssertionError"} /\ calls = 0)

\* C13: inside one batch, a pass of the inner loop leaves the list of every
\* slot that was already truncated as it was.
TruncatedSlotNotExtended ==
    [][(g_pc = "inner" /\ g_pc' = "inner") =>
          \A j \in DOMAIN truncated :
              truncated[j] => gen_text'[j] = gen_text[j]]_vars


(* ---------------------------------------------------------------------- *)
(* Properties of finetune(): refused arguments, failures                   *)
(* ---------------------------------------------------------------------- *)
\* C14 (as stated): a call that was given accumulate_gradients > 1 and
\* use_memory_saving_gradients = true is at the exit of line 218, whatever
\* its model_name.
UnsupportedCombinationStopsAnyModel ==
    (t_pc # "idle" /\ arg_accumulate > 1 /\ arg_memory_saving) =>
        t_pc = "exit"

\* C14 (amended): for model_name 117M or 124M a call that was given
\* accumulate_gradients > 1 and use_memory_saving_gradients = true is at the
\* exit of line 218; a call at that exit has restored no checkpoint, made no
\* save and run no optimizer step; for any other model_name the call runs
\* with accumulate_gradients = 1 and never takes that exit.
UnsupportedCombinationStopsSmallModel ==
    /\ (t_pc # "idle" /\ SmallModel /\ arg_accumulate > 1
                      /\ arg_memory_saving) => t_pc = "exit"
    /\ t_pc = "exit" =>
          /\ SmallModel /\ arg_accumulate > 1 /\ arg_memory_saving
          /\ ckpt = NoCheckpoint
          /\ call_saves = 0
          /\ applies = 0
    /\ (t_pc # "idle" /\ ~SmallModel) =>
          (t_pc # "exit" /\ accumulate_gradients = 1)

WitnessUnsupportedCombinationStopsSmallModel ==
    /\ t_pc = "exit"
    /\ model_name = "124M"
    /\ arg_accumulate = MaxAccumulate
    /\ arg_memory_saving
    /\ counter_file # None

\* C15: a step that raises anything but an interrupt is taken from inside
\* the training loop and makes no save: the counter file, the checkpoint of
\* the run and the number of saves stay as they were; from there the call
\* only ends, again without a save, so the counter file holds what the last
\* save wrote.
FailurePropagatesWithoutSave ==
    /\ [][(t_pc # "raised" /\ t_pc' = "raised") =>
             /\ t_pc \in InLoop
             /\ counter_file' = counter_file
             /\ run_latest' = run_latest
             /\ call_saves' = call_saves
             /\ last_save_counter' = last_save_counter]_vars
    /\ [][t_pc = "raised" =>
             /\ t_pc' = "idle"
             /\ counter_file' = counter_file
             /\ run_latest' = run_latest]_vars
    /\ [](t_pc = "raised" /\ last_save_counter > 0 =>
             counter_file = CounterFileText(last_save_counter))

WitnessFailurePropagatesWithoutSave ==
    /\ t_pc = "raised"
    /\ call_saves > 0
    /\ counter > last_save_counter
    /\ counter_file = CounterFileText(last_save_counter)

(* ---------------------------------------------------------------------- *)
(* Properties of generate(): destination file, loop, contexts              *)
(* ---------------------------------------------------------------------- *)
\* the states in which generate is over
GenTerminal == {"returned", "AssertionError", "feed_error", "model_error"}

\* C16: whenever generate is over, by its return or by an error, the
\* destination file is not open.
FileClosedOnEveryExit == g_pc \in GenTerminal => ~f_open


\* C17: with a positive length the inner loop is left only with every slot
\* marked truncated, and a pass after which total_tokens has reached
\* length - 1 marks every slot truncated.
PositiveLengthLoopEndsTruncated ==
    length > 0 =>
        /\ g_pc \in {"outer", "returned", "feed_error"} =>
               \A j \in DOMAIN truncated : truncated[j]
        /\ (g_pc = "inner" /\ calls > 0 /\ total_tokens >= length - 1) =>
               \A j \in DOMAIN truncated : truncated[j]

\* C18: with length None and a truncation term, a slot is marked truncated
\* exactly when its text has matched the delimiter, however many tokens were
\* sampled; the inner loop is left only when every slot has matched, and
\* until then it goes on.
UnboundedLoopEndsOnlyOnMatch ==
    (length = LenNone /\ Truthy(truncate)) =>
        /\ \A j \in DOMAIN truncated : truncated[j] = matched[j]
        /\ g_pc \in {"outer", "returned", "feed_error"} =>
               \A j \in DOMAIN matched : matched[j]
        /\ (g_pc = "inner" /\ \E j \in DOMAIN matched : ~matched[j]) =>
               ~ENABLED BatchEnd

WitnessUnboundedLoopEndsOnlyOnMatch ==
    /\ length = LenNone
    /\ Truthy(truncate)
    /\ g_pc = "inner"
    /\ batch_size = 2
    /\ calls = MaxCalls
    /\ total_tokens >= Window
    /\ matched[1]
    /\ ~truncated[2]

\* C19: whenever generate is about to call the model, the contexts of all
\* slots have the same length.
ContextsSameLengthAtCall ==
    (g_pc = "inner" /\ \E j \in DOMAIN truncated : ~truncated[j]) =>
        Rectangular(context_tokens)

\* C20: inside a batch the list of every slot holds the texts that slot
\* appended itself, and nothing else.
SlotsKeepOwnTokens ==
    g_pc = "inner" =>
        \A j \in DOMAIN gen_text : gen_text[j] = own_text[j]

(* ---------------------------------------------------------------------- *)
(* Properties of generate(): batches, delimiter                            *)
(* ---------------------------------------------------------------------- *)
\* C21: the context about to be fed to the first model call of a batch is
\* the context built from the prefix arguments, in the first batch and in
\* every later one.
BatchStartsFromPrefixContext ==
    (g_pc = "inner" /\ calls = 0) =>
        context_tokens = InitialContext(prefix, batch_prefix, batch_size)

\* what generate wrote to the destination file or, without one, printed
OutputText == IF Truthy(destination_path) THEN Join(f_writes) ELSE Join(printed)

\* number of places of text at which pat occurs
CountOccurrences(text, pat) ==
    Cardinality({k \in 1..Len(text) : OccursAt(text, pat, k)})

\* a call that writes or prints its texts has returned
OutputComplete ==
    g_pc = "returned" /\ (Truthy(destination_path) \/ ~return_as_list)

BudgetAtCounter == steps > 0 /\ counter = counter_base + steps

\* C23: the step that passes line 332 saves, once and at the loop counter,
\* exactly when counter > 1 and (counter-1) % save_every = 0, and it is only
\* taken when the budget is not reached; inside the loop no other step
\* saves; the step at the loop top ends the call exactly when the budget is
\* reached, with one save, and nothing is saved after it.
PeriodicSaveWhenDue ==
    /\ [][(t_pc = "save" /\ t_pc' = "sample") =>
             /\ (call_saves' = call_saves + 1) =
                    (counter > 1 /\ (counter - 1) % save_every = 0)
             /\ call_saves' \in {call_saves, call_saves + 1}
             /\ call_saves' # call_saves =>
                    counter_file' = StrOf(counter - 1) \o <<"nl">>]_vars
    /\ [](t_pc = "save" => ~BudgetAtCounter)
    /\ [][(t_pc \in InLoop /\ t_pc' \in InLoop /\ call_saves' # call_saves)
             => t_pc = "save"]_vars
    /\ [][(t_pc = "top" /\ t_pc' \in {"save", "completed"}) =>
             /\ (t_pc' = "completed") = BudgetAtCounter
             /\ call_saves' =
                    IF BudgetAtCounter THEN call_saves + 1 ELSE call_saves]_vars
    /\ [][t_pc = "completed" =>
             (counter_file' = counter_file /\ save_tick' = save_tick)]_vars

WitnessPeriodicSaveWhenDue ==
    /\ t_pc = "completed"
    /\ save_every = 2
    /\ counter_base = 1
    /\ counter = 3
    /\ call_saves = 1

\* C24: in a call that resumed from the counter file of the run
\* (restore_from = 'latest', overwrite off), no save has been made as long
\* as the loop has run no optimizer step.
ResumedCallStepsBeforeSaving ==
    (/\ t_pc \in InLoop
     /\ restore_from = "latest"
     /\ ~overwrite
     /\ counter_base > 1
     /\ applies = 0) => call_saves = 0

\* C25: the step that passes line 334 runs generate_samples exactly when
\* counter > 1 and (counter-1) % sample_every = 0, and it is only taken when
\* the budget is not reached; it comes after the save due in the iteration
\* and before the iteration's optimizer step, and it writes the file
\* samples-<counter> with sample_num texts under the banners 1..sample_num;
\* no other step of the loop samples.
PeriodicSampleWhenDue ==
    /\ [][(t_pc = "sample" /\ t_pc' = "train") =>
             /\ (sample_runs' = sample_runs + 1) =
                    (counter > 1 /\ (counter - 1) % sample_every = 0)
             /\ sample_runs' \in {sample_runs, sample_runs + 1}
             /\ sample_runs' # sample_runs =>
                    /\ sample_file'.counter = counter
                    /\ Len(sample_file'.texts) = sample_num
                    /\ \A k \in 1..sample_num :
                           sample_file'.texts[k].banner = k
                    /\ it_applies = 0
                    /\ (counter - 1) % save_every = 0 =>
                           last_save_counter = counter
             /\ sample_runs' = sample_runs =>
                    sample_file' = sample_file]_vars
    /\ [](t_pc = "sample" => ~BudgetAtCounter)
    /\ [][(t_pc \in InLoop /\ t_pc' \in InLoop /\ t_pc # "sample") =>
             (sample_runs' = sample_runs /\ sample_file' = sample_file)]_vars

WitnessPeriodicSampleWhenDue ==
    /\ t_pc = "train"
    /\ sample_num = 3
    /\ train_batch_size = 2
    /\ sample_runs = 2
    /\ sample_file.counter = counter
    /\ Len(sample_file.texts) = 3
    /\ last_save_counter = counter

\* C26: a call that enters the training loop with overwrite on and
\* restore_from = 'latest' has, before any optimizer step, deleted the model
\* and event files listed at startup and saved once at its counter, which
\* leaves in an existing counter file the text that was read; a call that
\* enters the loop otherwise has deleted nothing and saved nothing.
OverwriteResetsHistory ==
    [][(t_pc = "idle" /\ t_pc' = "top") =>
          IF overwrite' /\ restore_from' = "latest"
          THEN /\ ~old_files'
               /\ call_saves' = 1
               /\ last_save_counter' = counter'
               /\ applies' = 0
               /\ counter_file' = StrOf(counter' - 1) \o <<"nl">>
               /\ counter_file # None => counter_file' = counter_file
          ELSE /\ old_files' = dir_has_files
               /\ call_saves' = 0
               /\ counter_file' = counter_file
               /\ run_latest' = run_latest]_vars

WitnessOverwriteResetsHistory ==
    /\ t_pc = "top"
    /\ overwrite
    /\ restore_from = "latest"
    /\ counter > 1
    /\ applies = 0
    /\ call_saves = 1
    /\ ~old_files
    /\ counter_file = StrOf(counter - 1) \o <<"nl">>

\* C27: every iteration updates the running average pair once, so at the
\* loop top after k iterations the pair has been updated k times, and after
\* the first iteration with loss v it is (v, 1) and the average is v.
AverageUpdatedEveryIteration ==
    /\ [][(t_pc = "report" /\ t_pc' = "top") =>
             \E v \in LossOptions : avg_loss' = AvgUpdate(avg_loss, v)]_vars
    /\ [](t_pc = "top" /\ counter = counter_base + 1 =>
             \E v \in LossOptions :
                 /\ avg_loss = <<v * AvgScale, AvgScale>>
                 /\ ReportedAverage(avg_loss) = v * AvgScale)

\* C28: a call whose dataset is a list of two or more paths and whose
\* checkpoint was restored is in the training loop or has left it through
\* the loop; it has not stopped on an error before the loop.
DatasetListReachesLoop ==
    (/\ dataset.list
     /\ Len(dataset.paths) >= 2
     /\ t_pc \notin {"idle", "exit", "error"}) => t_pc # "NameError"

====
